---- MODULE Spec2Model ----
(***************************************************************************)
(* process-ninja: the process execution state machine.                     *)
(*                                                                         *)
(* The database tables (workflowTemplate, workflowStep, formSchema,        *)
(* processInstance, processStepInstance, auditLog, notification) are the   *)
(* state.  Every                                                           *)
(* route handler is a request that runs in steps separated by its awaits   *)
(* on the database: the read and the guards, the $transaction, and the     *)
(* work after the commit.  Spec runs the requests of one client, one after  *)
(* the other, over the templates with stepOrder 1..n; SpecGaps does so     *)
(* over the templates whose stepOrder values may leave a gap;              *)
(* SpecConcurrent runs the requests of two clients interleaved at their    *)
(* awaits.  SpecTemplateAdmin runs the template management requests       *)
(* (create, update, status, delete) of one client from the empty store;    *)
(* SpecTemplates adds the process requests to them; SpecDeleteRace runs    *)
(* template deletions and process creations of two clients interleaved.    *)
(* SpecEditor runs the workflow pages with their step editor next to       *)
(* requests sent to the API directly; SpecCreateRace runs status changes   *)
(* and edits of a template against process creations; SpecProgress runs    *)
(* Spec with approvals only, under fair approvers.                         *)
(*                                                                         *)
(* auditLog and notification are append-only and no handler modelled here  *)
(* reads them: the model keeps, per client, the rows its request in flight *)
(* has inserted.                                                           *)
(***************************************************************************)
EXTENDS Integers, Sequences, FiniteSets, TLC

\* ------------------------------------------------------------------ bounds
MaxSteps == 3            \* steps of a template, Spec
MaxGapSteps == 2         \* steps of a template, SpecGaps
MaxConcurrentSteps == 1  \* steps of a template, SpecConcurrent
MaxTemplateSteps == 2    \* steps in the body of a workflow create or update
MaxStepOrder == 2        \* largest stepOrder in the body of a request to the API

\* ------------------------------------------------------------------ domains
Clients == {"c1", "c2"}
Users == {"admin", "approver", "user"}
Creators == {"user"}   \* the sessions that start processes
NoSession == "anonymous"
Sessions == Users \cup {NoSession}
TemplateIds == {"t1"}
RequestedTemplateIds == TemplateIds \cup {"t0"}
ProcIds == {"p1"}
RequestedProcIds == ProcIds \cup {"p0"}
StepInstIds == ProcIds \X (1..MaxSteps)
StepTypes == {"FORM", "APPROVAL", "NOTIFICATION"}
WorkflowStatuses == {"DRAFT", "ACTIVE", "ARCHIVED"}
ProcessStatuses == {"PENDING", "IN_PROGRESS", "COMPLETED", "REJECTED", "CHANGES_REQUESTED"}
StepStatuses == {"PENDING", "COMPLETED", "REJECTED"}
Actions == {"approve", "reject", "request_changes"}
Bodies == Actions \cup {"malformed"}
CommentInputs == {"text"}
NULL == "NULL"
NOW == "NOW"

\* seed: one user per role
userRole(u) ==
  CASE u = "admin" -> "ADMIN"
    [] u = "approver" -> "APPROVER"
    [] OTHER -> "USER"

VARIABLES
  workflowTemplate,     \* table: template id -> [status]
  workflowStep,         \* table: <<template id, k>> -> [workflowTemplateId, stepOrder, stepType]
  formSchema,           \* table, unique on workflowTemplateId: the template ids that have a row
  processInstance,      \* table: process id -> [workflowTemplateId, createdById, status]
  processStepInstance,  \* table: step instance id -> [processInstanceId, workflowStepId, status, actedById, actedAt, comments]
  auditLog,             \* per client: the rows [processInstanceId, action, changedById] its request inserted
  notification,         \* per client: the rows [userId, processInstanceId, type] its request inserted
  pc,                   \* per client: where its request stands
  req,                  \* per client: the request's inputs and what it read
  resp,                 \* per client: the response of the request
  failed                \* per client: the database calls of the request that threw

vars == <<workflowTemplate, workflowStep, formSchema, processInstance, processStepInstance,
          auditLog, notification, pc, req, resp, failed>>

db == <<workflowTemplate, workflowStep, formSchema, processInstance, processStepInstance>>
sideEffects == <<auditLog, notification>>

\* ------------------------------------------------------------------ queries
Min(S) == CHOOSE x \in S : \A y \in S : x <= y

RECURSIVE SortByStepOrder(_, _)
\* rows: a set of ids; ord: id -> stepOrder  (orderBy: { stepOrder: "asc" })
SortByStepOrder(ids, ord) ==
  IF ids = {} THEN <<>>
  ELSE LET m == Min({ord[i] : i \in ids})
           first == CHOOSE i \in ids : ord[i] = m
       IN <<first>> \o SortByStepOrder(ids \ {first}, ord)

\* include: { steps: { orderBy: { stepOrder: "asc" } } }
TemplateSteps(t) ==
  LET ids == {i \in DOMAIN workflowStep : workflowStep[i].workflowTemplateId = t}
      sorted == SortByStepOrder(ids, [i \in ids |-> workflowStep[i].stepOrder])
  IN [k \in 1..Len(sorted) |->
        [id |-> sorted[k],
         stepOrder |-> workflowStep[sorted[k]].stepOrder,
         stepType |-> workflowStep[sorted[k]].stepType]]

\* include: { steps: { include: { workflowStep: true }, orderBy: { workflowStep: { stepOrder: "asc" } } } }
ProcessSteps(p) ==
  LET ids == {i \in DOMAIN processStepInstance : processStepInstance[i].processInstanceId = p}
      sorted == SortByStepOrder(ids,
                  [i \in ids |-> workflowStep[processStepInstance[i].workflowStepId].stepOrder])
  IN [k \in 1..Len(sorted) |->
        [id |-> sorted[k],
         stepOrder |-> workflowStep[processStepInstance[sorted[k]].workflowStepId].stepOrder]]

\* Array.prototype.find on a list of rows by stepOrder: the index of the first match, 0 if none
FindByOrder(rows, order) ==
  IF \E k \in 1..Len(rows) : rows[k].stepOrder = order
  THEN Min({k \in 1..Len(rows) : rows[k].stepOrder = order})
  ELSE 0

\* steps of a request body: absent, or a list
NoSteps == [given |-> FALSE, list |-> <<>>]

NoRequest ==
  [kind |-> "none", userId |-> NoSession, action |-> "malformed", comments |-> "UNDEFINED",
   processId |-> "p0", stepId |-> <<"p0", 0>>, templateId |-> "t0",
   wfSteps |-> <<>>, procSteps |-> <<>>, currentStepOrder |-> 0, createdById |-> NULL,
   steps |-> NoSteps, formSchema |-> "UNDEFINED"]

\* ------------------------------------------------------------------ Init
\* the orders the workflow step editor produces: 1..n
ContiguousOrders(n) == {[k \in 1..n |-> k]}

\* stepOrder: z.number().int().min(1), nothing more: the orders of a stored template
\* need not be 1..n.  Here the n orders are distinct and drawn from 1..n+1.
GapOrders(n) ==
  {o \in [1..n -> 1..(n + 1)] : \A i, j \in 1..n : i < j => o[i] < o[j]}

\* A seeded store: at most one template, of a shape the workflow API stores, and no
\* process yet.  gaps: whether the stepOrder values of the template may leave a gap.
InitWith(maxSteps, gaps) ==
  /\ \E exists \in BOOLEAN, st \in WorkflowStatuses, n \in 0..maxSteps :
       \E ty \in [1..n -> StepTypes], o \in (IF gaps THEN GapOrders(n) ELSE ContiguousOrders(n)) :
         /\ workflowTemplate = IF exists THEN [t \in TemplateIds |-> [status |-> st]]
                                         ELSE <<>>
         /\ workflowStep = IF exists
                           THEN [i \in {"t1"} \X (1..n) |->
                                   [workflowTemplateId |-> i[1],
                                    stepOrder |-> o[i[2]],
                                    stepType |-> ty[i[2]]]]
                           ELSE <<>>
         /\ formSchema = IF exists /\ \E k \in 1..n : ty[k] = "FORM" THEN TemplateIds ELSE {}
  /\ processInstance = <<>>
  /\ processStepInstance = <<>>
  /\ auditLog = [c \in Clients |-> <<>>]
  /\ notification = [c \in Clients |-> <<>>]
  /\ pc = [c \in Clients |-> "idle"]
  /\ req = [c \in Clients |-> NoRequest]
  /\ resp = [c \in Clients |-> "none"]
  /\ failed = [c \in Clients |-> {}]

Init == InitWith(MaxSteps, FALSE)

InitGaps == InitWith(MaxGapSteps, TRUE)

InitConcurrent == InitWith(MaxConcurrentSteps, FALSE)

\* ------------------------------------------------------------------ step action: POST /api/processes/[id]/steps/[stepId]/action
\* The session, role and body checks, the findUnique and the four guards on what it
\* returned, in the order the handler makes them.  "OK" when every check passes.
StepActionGuardsRoleLast(session, body, processId, stepId) ==
  IF session = NoSession THEN "401_unauthorized"
  ELSE IF body \notin Actions THEN "400_invalid_request"
  ELSE IF stepId \notin DOMAIN processStepInstance THEN "404_step_not_found"
  ELSE IF processStepInstance[stepId].processInstanceId # processId THEN "400_step_mismatch"
  ELSE IF processStepInstance[stepId].status # "PENDING" THEN "400_not_pending"
  ELSE IF workflowStep[processStepInstance[stepId].workflowStepId].stepType # "APPROVAL"
    THEN "400_not_approval"
  ELSE IF userRole(session) \notin {"ADMIN", "APPROVER"} THEN "403_forbidden"
  ELSE "OK"

StepActionGuardsNoPendingCheck(session, body, processId, stepId) ==
  IF session = NoSession THEN "401_unauthorized"
  ELSE IF userRole(session) \notin {"ADMIN", "APPROVER"} THEN "403_forbidden"
  ELSE IF body \notin Actions THEN "400_invalid_request"
  ELSE IF stepId \notin DOMAIN processStepInstance THEN "404_step_not_found"
  ELSE IF processStepInstance[stepId].processInstanceId # processId THEN "400_step_mismatch"
  ELSE IF workflowStep[processStepInstance[stepId].workflowStepId].stepType # "APPROVAL"
    THEN "400_not_approval"
  ELSE "OK"

StepActionGuardsNoTypeCheck(session, body, processId, stepId) ==
  IF session = NoSession THEN "401_unauthorized"
  ELSE IF userRole(session) \notin {"ADMIN", "APPROVER"} THEN "403_forbidden"
  ELSE IF body \notin Actions THEN "400_invalid_request"
  ELSE IF stepId \notin DOMAIN processStepInstance THEN "404_step_not_found"
  ELSE IF processStepInstance[stepId].processInstanceId # processId THEN "400_step_mismatch"
  ELSE IF processStepInstance[stepId].status # "PENDING" THEN "400_not_pending"
  ELSE "OK"

StepActionGuards(session, body, processId, stepId) ==
  IF session = NoSession THEN "401_unauthorized"
  ELSE IF userRole(session) \notin {"ADMIN", "APPROVER"} THEN "403_forbidden"
  ELSE IF body \notin Actions THEN "400_invalid_request"
  ELSE IF stepId \notin DOMAIN processStepInstance THEN "404_step_not_found"
  ELSE IF processStepInstance[stepId].processInstanceId # processId THEN "400_step_mismatch"
  ELSE IF processStepInstance[stepId].status # "PENDING" THEN "400_not_pending"
  ELSE IF workflowStep[processStepInstance[stepId].workflowStepId].stepType # "APPROVAL"
    THEN "400_not_approval"
  ELSE "OK"

\* every guard ends in a return: the handler goes on to the transaction only on "OK"
AfterGuardsNoReturn(outcome) == "tx"

AfterGuards(outcome) == IF outcome = "OK" THEN "tx" ELSE "done"

\* the inputs a request that fails a check has read by then: the session first, the
\* body after the role check, the path parameters once the body has parsed
StepActionInputsRead(session, body, comments, processId, stepId) ==
  LET authorized == session # NoSession /\ userRole(session) \in {"ADMIN", "APPROVER"}
      parsed == authorized /\ body \in Actions
  IN [NoRequest EXCEPT !.kind = "act", !.userId = session,
                       !.action = IF authorized THEN body ELSE "unread",
                       !.comments = IF parsed THEN comments ELSE "UNDEFINED",
                       !.processId = IF parsed THEN processId ELSE "unread",
                       !.stepId = IF parsed THEN stepId ELSE <<"unread", 0>>]

\* what the findUnique returned, kept by the request for the rest of the handler
StepActionSnapshot(session, body, comments, processId, stepId) ==
  LET si == processStepInstance[stepId]
      p == si.processInstanceId
  IN [kind |-> "act", userId |-> session, action |-> body, comments |-> comments,
      processId |-> processId, stepId |-> stepId,
      templateId |-> processInstance[p].workflowTemplateId,
      wfSteps |-> TemplateSteps(processInstance[p].workflowTemplateId),
      procSteps |-> ProcessSteps(p),
      currentStepOrder |-> workflowStep[si.workflowStepId].stepOrder,
      createdById |-> processInstance[p].createdById]

BeginStepAction(c) ==
  /\ pc[c] = "idle"
  /\ \E session \in Sessions, body \in Bodies, comments \in CommentInputs,
        processId \in RequestedProcIds, stepId \in StepInstIds :
       LET outcome == StepActionGuards(session, body, processId, stepId)
           goesOn == AfterGuards(outcome) = "tx" /\ stepId \in DOMAIN processStepInstance
       IN /\ pc' = [pc EXCEPT ![c] = AfterGuards(outcome)]
          /\ resp' = [resp EXCEPT ![c] = IF outcome = "OK" THEN "none" ELSE outcome]
          /\ req' = [req EXCEPT ![c] =
                       IF goesOn
                       THEN StepActionSnapshot(session, body, comments, processId, stepId)
                       ELSE StepActionInputsRead(session, body, comments, processId, stepId)]
  /\ UNCHANGED <<db, sideEffects, failed>>

\* status: action === "approve" ? "COMPLETED" : "REJECTED"
StepStatusForAlwaysCompleted(action) == "COMPLETED"

StepStatusFor(action) == IF action = "approve" THEN "COMPLETED" ELSE "REJECTED"

TargetStepUpdateNotApplied(r) == processStepInstance[r.stepId]

\* tx.processStepInstance.update of the target; comments undefined leaves the column alone
TargetStepUpdate(r) ==
  [processStepInstance[r.stepId] EXCEPT
     !.status = StepStatusFor(r.action),
     !.actedById = r.userId,
     !.actedAt = NOW,
     !.comments = IF r.comments = "UNDEFINED" THEN @ ELSE r.comments]

AutoCompletedStepsNone(r) == {}

\* the step instance the approve branch auto-completes: the ids of the snapshot's
\* next step instance when the snapshot's next workflow step is a NOTIFICATION
AutoCompletedSteps(r) ==
  LET nextStepOrder == r.currentStepOrder + 1
      nw == FindByOrder(r.wfSteps, nextStepOrder)
      ni == FindByOrder(r.procSteps, nextStepOrder)
  IN IF r.action = "approve" /\ nw # 0 /\ ni # 0 /\ r.wfSteps[nw].stepType = "NOTIFICATION"
     THEN {r.procSteps[ni].id}
     ELSE {}

\* tx.processInstance.update({ data: { status: ... } }) of each branch
StatusWhenNoNextStepStaysOpen == "IN_PROGRESS"

StatusWhenNoNextStep == "COMPLETED"

StatusOnRejectAsChangesRequested == "CHANGES_REQUESTED"

StatusOnReject == "REJECTED"

StatusOnRequestChanges == "CHANGES_REQUESTED"

\* the process status the transaction writes; old when it writes none
ProcessStatusAfter(r, old) ==
  LET nextStepOrder == r.currentStepOrder + 1
      nw == FindByOrder(r.wfSteps, nextStepOrder)
      ni == FindByOrder(r.procSteps, nextStepOrder)
  IN CASE r.action = "approve" ->
            IF nw # 0
            THEN IF ni # 0
                 THEN IF r.wfSteps[nw].stepType = "NOTIFICATION"
                      THEN IF FindByOrder(r.wfSteps, nextStepOrder + 1) = 0
                           THEN "COMPLETED"
                           ELSE old
                      ELSE "IN_PROGRESS"
                 ELSE old
            ELSE StatusWhenNoNextStep
       [] r.action = "reject" -> StatusOnReject
       [] r.action = "request_changes" -> StatusOnRequestChanges
       [] OTHER -> old

\* db.$transaction of the step action: all its writes at once, or none when it throws
StepActionTransaction(c) ==
  /\ pc[c] = "tx"
  /\ req[c].kind = "act"
  /\ LET r == req[c] IN
       \/ /\ r.currentStepOrder # 0
          /\ r.stepId \in DOMAIN processStepInstance
          /\ r.processId \in DOMAIN processInstance
          /\ processStepInstance' =
               [i \in DOMAIN processStepInstance |->
                  IF i = r.stepId THEN TargetStepUpdate(r)
                  ELSE IF i \in AutoCompletedSteps(r)
                       THEN [processStepInstance[i] EXCEPT !.status = "COMPLETED", !.actedAt = NOW]
                       ELSE processStepInstance[i]]
          /\ processInstance' =
               [processInstance EXCEPT ![r.processId].status = ProcessStatusAfter(r, @)]
          /\ pc' = [pc EXCEPT ![c] = "post"]
          /\ UNCHANGED <<resp, failed, req>>
       \/ /\ failed' = [failed EXCEPT ![c] = {"tx"}]
          /\ pc' = [pc EXCEPT ![c] = "done"]
          /\ resp' = [resp EXCEPT ![c] = "500_internal"]
          /\ UNCHANGED <<processInstance, processStepInstance, req>>
  /\ UNCHANGED <<workflowTemplate, workflowStep, formSchema, sideEffects>>

\* ------------------------------------------------------------------ lib/audit.ts, lib/notifications.ts
\* createAuditLog: the insert, or nothing when it throws (caught and logged)
createAuditLog(log, entry, throws) == IF throws THEN log ELSE Append(log, entry)

\* createNotification: the insert, or nothing when it throws (caught and logged)
createNotification(table, n, throws) == IF throws THEN table ELSE Append(table, n)

\* db.user.findMany({ where: { role: { in: ["ADMIN", "APPROVER"] } } })
ApproverPool == {u \in Users : userRole(u) \in {"ADMIN", "APPROVER"}}

RECURSIVE notifyEach(_, _, _)
notifyEach(table, users, processId) ==
  IF users = {} THEN table
  ELSE LET u == CHOOSE x \in users : TRUE
       IN notifyEach(createNotification(table,
                       [userId |-> u, processInstanceId |-> processId, type |-> "ACTION_REQUIRED"],
                       FALSE),
                     users \ {u}, processId)

\* notifyApprovers: one ACTION_REQUIRED notification per approver, or nothing when
\* the findMany throws (caught and logged)
notifyApprovers(table, processId, throws) ==
  IF throws THEN table ELSE notifyEach(table, ApproverPool, processId)

\* notifyProcessCreator: type by action, then createNotification
notifyProcessCreator(table, processId, createdById, action, throws) ==
  createNotification(table,
    [userId |-> createdById, processInstanceId |-> processId,
     type |-> IF action \in {"changes_requested", "rejected"} THEN "ACTION_REQUIRED" ELSE "UPDATE"],
    throws)

actionMapAlwaysCompleted(action) == "STEP_COMPLETED"

actionMap(action) ==
  CASE action = "approve" -> "STEP_COMPLETED"
    [] action = "reject" -> "STEP_REJECTED"
    [] OTHER -> "CHANGES_REQUESTED"

notificationAction(action) ==
  CASE action = "approve" -> "approved"
    [] action = "reject" -> "rejected"
    [] OTHER -> "changes_requested"

\* workflow.steps.find((s) => s.stepOrder === nextStepOrder && s.stepType === "APPROVAL")
NextIsApproval(r) ==
  \E k \in 1..Len(r.wfSteps) :
    r.wfSteps[k].stepOrder = r.currentStepOrder + 1 /\ r.wfSteps[k].stepType = "APPROVAL"

\* the database calls after the commit of a step action that may throw, in order
StepActionCalls(r) ==
  {"audit", "lookup", "creator", "fetch"}
    \cup (IF r.action = "approve" /\ NextIsApproval(r) THEN {"pool"} ELSE {})

\* a throw of the actor-name lookup or of the final fetch is not caught where it
\* happens: it reaches the handler's catch, which answers 500
StepActionResponseUncaught(F) == IF "lookup" \in F \/ "fetch" \in F THEN "500_internal" ELSE "200_ok"

\* After the commit: audit entry, actor-name lookup, creator notification, approver
\* notification, final fetch.  F: the calls that throw in this run.
StepActionPostCommit(c) ==
  /\ pc[c] = "post"
  /\ req[c].kind = "act"
  /\ LET r == req[c] IN
     \E F \in SUBSET StepActionCalls(r) :
       /\ "lookup" \in F => F \cap {"creator", "pool", "fetch"} = {}
       /\ auditLog' = [auditLog EXCEPT ![c] = createAuditLog(@,
                        [processInstanceId |-> r.processId, action |-> actionMap(r.action),
                         changedById |-> r.userId],
                        "audit" \in F)]
       /\ notification' = [notification EXCEPT ![c] =
            IF "lookup" \in F THEN @
            ELSE LET n1 == notifyProcessCreator(@, r.processId, r.createdById,
                             notificationAction(r.action), "creator" \in F)
                 IN IF r.action = "approve" /\ NextIsApproval(r)
                    THEN notifyApprovers(n1, r.processId, "pool" \in F)
                    ELSE n1]
       /\ resp' = [resp EXCEPT ![c] = StepActionResponseUncaught(F)]
       /\ failed' = [failed EXCEPT ![c] = F]
  /\ pc' = [pc EXCEPT ![c] = "done"]
  /\ UNCHANGED <<db, req>>

\* the response is sent: the client may issue its next request
Return(c) ==
  /\ pc[c] = "done"
  /\ pc' = [pc EXCEPT ![c] = "idle"]
  /\ resp' = [resp EXCEPT ![c] = "none"]
  /\ failed' = [failed EXCEPT ![c] = {}]
  /\ auditLog' = [auditLog EXCEPT ![c] = <<>>]
  /\ notification' = [notification EXCEPT ![c] = <<>>]
  /\ req' = [req EXCEPT ![c] = NoRequest]
  /\ UNCHANGED db

\* ------------------------------------------------------------------ create process: POST /api/processes
CreateProcessGuardsNoActiveCheck(session, bodyOk, templateId) ==
  IF session = NoSession THEN "401_unauthorized"
  ELSE IF ~bodyOk THEN "400_invalid_request"
  ELSE IF templateId \notin DOMAIN workflowTemplate THEN "404_workflow_not_found"
  ELSE IF Len(TemplateSteps(templateId)) = 0 THEN "400_no_steps"
  ELSE "OK"

CreateProcessGuards(session, bodyOk, templateId) ==
  IF session = NoSession THEN "401_unauthorized"
  ELSE IF ~bodyOk THEN "400_invalid_request"
  ELSE IF templateId \notin DOMAIN workflowTemplate THEN "404_workflow_not_found"
  ELSE IF workflowTemplate[templateId].status # "ACTIVE" THEN "400_not_active"
  ELSE IF Len(TemplateSteps(templateId)) = 0 THEN "400_no_steps"
  ELSE "OK"

BeginCreateProcess(c) ==
  /\ pc[c] = "idle"
  /\ \E session \in Creators \cup {NoSession}, bodyOk \in BOOLEAN, templateId \in RequestedTemplateIds :
       LET outcome == CreateProcessGuards(session, bodyOk, templateId)
       IN /\ pc' = [pc EXCEPT ![c] = IF outcome = "OK" THEN "tx" ELSE "done"]
          /\ resp' = [resp EXCEPT ![c] = IF outcome = "OK" THEN "none" ELSE outcome]
          /\ req' = [req EXCEPT ![c] =
                       [NoRequest EXCEPT !.kind = "create", !.userId = session,
                                         !.action = IF bodyOk THEN "create" ELSE "malformed",
                                         !.templateId = IF session # NoSession /\ bodyOk
                                                        THEN templateId ELSE "unread",
                                         !.wfSteps = IF outcome = "OK"
                                                     THEN TemplateSteps(templateId)
                                                     ELSE <<>>]]
  /\ UNCHANGED <<db, sideEffects, failed>>

\* index === 0 && step.stepType === "FORM"
FirstForm(r, k) == k = 1 /\ r.wfSteps[k].stepType = "FORM"

\* the step instance created for the k-th step of the snapshot
NewStepInstance(r, p, k) ==
  [processInstanceId |-> p, workflowStepId |-> r.wfSteps[k].id,
   status |-> IF FirstForm(r, k) THEN "COMPLETED" ELSE "PENDING",
   actedById |-> IF FirstForm(r, k) THEN r.userId ELSE NULL,
   actedAt |-> IF FirstForm(r, k) THEN NOW ELSE NULL,
   comments |-> NULL]

\* the rows the inserts of the creation refer to exist: the template of the
\* process, the workflow step of every step instance
ForeignKeysNotChecked(r) == TRUE

ForeignKeysHold(r) ==
  /\ r.templateId \in DOMAIN workflowTemplate
  /\ \A k \in 1..Len(r.wfSteps) : r.wfSteps[k].id \in DOMAIN workflowStep

\* workflow.steps.map((step, index) => tx.processStepInstance.create(...))
CreatedStepIndexes(r) == 1..Len(r.wfSteps)

\* db.$transaction of the creation: the process and all its step instances, or nothing
CreateProcessTransaction(c) ==
  /\ pc[c] = "tx"
  /\ req[c].kind = "create"
  /\ LET r == req[c] IN
       \/ \E p \in ProcIds \ DOMAIN processInstance :
            /\ ForeignKeysHold(r)
            /\ processInstance' =
                 [q \in DOMAIN processInstance \cup {p} |->
                    IF q = p
                    THEN [workflowTemplateId |-> r.templateId, createdById |-> r.userId,
                          status |-> "IN_PROGRESS"]
                    ELSE processInstance[q]]
            /\ processStepInstance' =
                 [i \in DOMAIN processStepInstance \cup ({p} \X CreatedStepIndexes(r)) |->
                    IF i[1] = p THEN NewStepInstance(r, p, i[2]) ELSE processStepInstance[i]]
            /\ req' = [req EXCEPT ![c].processId = p]
            /\ pc' = [pc EXCEPT ![c] = "post"]
            /\ UNCHANGED <<resp, failed>>
       \/ /\ failed' = [failed EXCEPT ![c] = {"tx"}]
          /\ pc' = [pc EXCEPT ![c] = "done"]
          /\ resp' = [resp EXCEPT ![c] = "500_internal"]
          /\ UNCHANGED <<processInstance, processStepInstance, req>>
  /\ UNCHANGED <<workflowTemplate, workflowStep, formSchema, sideEffects>>

\* workflow.steps.some((step, index) => step.stepType === "APPROVAL" &&
\*   (index === 0 || (index === 1 && workflow.steps[0].stepType === "FORM")))
hasApprovalPending(steps) ==
  \E k \in 1..Len(steps) :
    /\ steps[k].stepType = "APPROVAL"
    /\ (k = 1 \/ (k = 2 /\ steps[1].stepType = "FORM"))

CreateProcessCalls(r) ==
  {"audit", "creator", "fetch"} \cup (IF hasApprovalPending(r.wfSteps) THEN {"pool"} ELSE {})

\* After the commit: audit entry, creator notification, approver notification, fetch.
CreateProcessPostCommit(c) ==
  /\ pc[c] = "post"
  /\ req[c].kind = "create"
  /\ LET r == req[c] IN
     \E F \in SUBSET CreateProcessCalls(r) :
       /\ auditLog' = [auditLog EXCEPT ![c] = createAuditLog(@,
                        [processInstanceId |-> r.processId, action |-> "PROCESS_CREATED",
                         changedById |-> r.userId],
                        "audit" \in F)]
       /\ notification' = [notification EXCEPT ![c] =
            LET n1 == createNotification(@,
                        [userId |-> r.userId, processInstanceId |-> r.processId, type |-> "INFO"],
                        "creator" \in F)
            IN IF hasApprovalPending(r.wfSteps)
               THEN notifyApprovers(n1, r.processId, "pool" \in F)
               ELSE n1]
       /\ resp' = [resp EXCEPT ![c] = IF "fetch" \in F THEN "500_internal" ELSE "201_created"]
       /\ failed' = [failed EXCEPT ![c] = F]
  /\ pc' = [pc EXCEPT ![c] = "done"]
  /\ UNCHANGED <<db, req>>

\* ------------------------------------------------------------------ workflow templates: /api/workflows, /api/workflows/[id], /api/workflows/[id]/status
\* the step lists of a request body, as the editor sends them: orders 1..n
WorkflowStepInputs ==
  UNION {{[k \in 1..n |-> [stepOrder |-> k, stepType |-> ty[k]]] : ty \in [1..n -> StepTypes]} :
           n \in 0..MaxTemplateSteps}

\* steps of a request body: absent (the schema has them optional), or a list
StepsBodies == {NoSteps} \cup {[given |-> TRUE, list |-> l] : l \in WorkflowStepInputs}

\* formSchema of a request body: absent, null, or { fields }
FormSchemaInputs == {"UNDEFINED", "NULL", "FIELDS"}

\* 401 without a session, 403 unless ADMIN, 400 on a body the schema rejects
WorkflowGuards(session, bodyOk) ==
  IF session = NoSession THEN "401_unauthorized"
  ELSE IF userRole(session) # "ADMIN" THEN "403_forbidden"
  ELSE IF ~bodyOk THEN "400_invalid_request"
  ELSE "OK"

\* ids of rows that a request in flight has read, or that a step instance refers to
HeldStepIds ==
  {processStepInstance[i].workflowStepId : i \in DOMAIN processStepInstance}
    \cup UNION {{req[c].wfSteps[k].id : k \in 1..Len(req[c].wfSteps)} : c \in Clients}

HeldTemplateIds ==
  {processInstance[p].workflowTemplateId : p \in DOMAIN processInstance}
    \cup {req[c].templateId : c \in {d \in Clients : pc[d] \in {"tx", "post"}}}

\* the ids of n new workflowStep rows of template t: ids no one has seen
FreshStepIds(t, n) ==
  LET free == {k \in 1..(n + Cardinality(HeldStepIds)) : <<t, k>> \notin HeldStepIds}
  IN [j \in 1..n |-> <<t, CHOOSE x \in free : Cardinality({y \in free : y < x}) = j - 1>>]

\* the workflowStep rows created from the steps of a body
NewWorkflowSteps(t, steps) ==
  LET ids == FreshStepIds(t, Len(steps))
  IN [i \in {ids[j] : j \in 1..Len(steps)} |->
        LET j == CHOOSE x \in 1..Len(steps) : ids[x] = i
        IN [workflowTemplateId |-> t, stepOrder |-> steps[j].stepOrder,
            stepType |-> steps[j].stepType]]

\* the rows of the other templates
StepsOfOtherTemplates(t) ==
  [i \in {k \in DOMAIN workflowStep : workflowStep[k].workflowTemplateId # t} |-> workflowStep[i]]

\* the status of a template that is created without one
DefaultWorkflowStatus == "DRAFT"

\* a row of the template, or one of its steps, is referred to by a process or a
\* step instance
TemplateReferenced(t) ==
  \E p \in DOMAIN processInstance : processInstance[p].workflowTemplateId = t
StepsReferenced(t) ==
  \E i \in DOMAIN processStepInstance :
    /\ processStepInstance[i].workflowStepId \in DOMAIN workflowStep
    /\ workflowStep[processStepInstance[i].workflowStepId].workflowTemplateId = t

DeleteNeverRefused(referenced) == FALSE

\* processes and step instances are never deleted: the delete of a row they refer
\* to is refused by the database
DeleteRefused(referenced) == referenced

\* an input that is not read: one value stands for all
FirstOf(S) == CHOOSE x \in S : TRUE

\* POST /api/workflows: the guards, then one nested create, then the audit entry.
\* from: where the client is when it sends the request; bodies, schemas: the
\* steps and formSchema a body may carry
CreateWorkflowWith(c, from, bodies, schemas) ==
  /\ pc[c] = from
  /\ \E session \in Sessions, bodyOk \in BOOLEAN, steps \in bodies,
        schema \in schemas, throws \in SUBSET {"create", "audit"} :
       LET outcome == WorkflowGuards(session, bodyOk) IN
       /\ req' = [req EXCEPT ![c] = [NoRequest EXCEPT !.kind = "wf_create", !.userId = session]]
       /\ pc' = [pc EXCEPT ![c] = "done"]
       /\ \/ /\ outcome # "OK"
             /\ throws = {} /\ steps = FirstOf(bodies) /\ schema = FirstOf(schemas)
             /\ resp' = [resp EXCEPT ![c] = outcome]
             /\ UNCHANGED <<db, sideEffects, failed>>
          \/ /\ outcome = "OK"
             /\ throws = {"create"} /\ steps = FirstOf(bodies) /\ schema = FirstOf(schemas)
             /\ resp' = [resp EXCEPT ![c] = "500_internal"]
             /\ failed' = [failed EXCEPT ![c] = throws]
             /\ UNCHANGED <<db, sideEffects>>
          \/ /\ outcome = "OK"
             /\ "create" \notin throws
             /\ \E t \in TemplateIds \ (DOMAIN workflowTemplate \cup HeldTemplateIds) :
                  /\ workflowTemplate' =
                       [u \in DOMAIN workflowTemplate \cup {t} |->
                          IF u = t THEN [status |-> DefaultWorkflowStatus] ELSE workflowTemplate[u]]
                  /\ workflowStep' =
                       IF ~steps.given THEN workflowStep
                       ELSE LET new == NewWorkflowSteps(t, steps.list)
                            IN [i \in DOMAIN workflowStep \cup DOMAIN new |->
                                  IF i \in DOMAIN new THEN new[i] ELSE workflowStep[i]]
                  /\ formSchema' = IF schema = "FIELDS" THEN formSchema \cup {t} ELSE formSchema
                  /\ auditLog' = [auditLog EXCEPT ![c] = createAuditLog(@,
                                   [processInstanceId |-> NULL, action |-> "WORKFLOW_CREATED",
                                    changedById |-> session],
                                   "audit" \in throws)]
             /\ resp' = [resp EXCEPT ![c] = "201_created"]
             /\ failed' = [failed EXCEPT ![c] = throws]
             /\ UNCHANGED <<processInstance, processStepInstance, notification>>

CreateWorkflow(c) == CreateWorkflowWith(c, "idle", StepsBodies, {"UNDEFINED", "FIELDS"})

\* PUT /api/workflows/[id]: the guards and the read of the template
BeginUpdateWorkflowWith(c, from, templates, bodies, schemas) ==
  /\ pc[c] = from
  /\ \E session \in Sessions, bodyOk \in BOOLEAN, t \in templates,
        steps \in bodies, schema \in schemas :
       LET guards == WorkflowGuards(session, bodyOk)
           outcome == IF guards # "OK" THEN guards
                      ELSE IF t \notin DOMAIN workflowTemplate THEN "404_workflow_not_found"
                      ELSE "OK"
       IN /\ outcome # "OK" => steps = FirstOf(bodies) /\ schema = FirstOf(schemas)
          /\ guards # "OK" => t = FirstOf(templates)
          /\ pc' = [pc EXCEPT ![c] = IF outcome = "OK" THEN "tx" ELSE "done"]
          /\ resp' = [resp EXCEPT ![c] = IF outcome = "OK" THEN "none" ELSE outcome]
          /\ req' = [req EXCEPT ![c] =
                       [NoRequest EXCEPT !.kind = "wf_update", !.userId = session,
                                         !.templateId = IF guards = "OK" THEN t ELSE "unread",
                                         !.steps = IF outcome = "OK" THEN steps ELSE NoSteps,
                                         !.formSchema = IF outcome = "OK" THEN schema
                                                        ELSE "UNDEFINED"]]
  /\ UNCHANGED <<db, sideEffects, failed>>

BeginUpdateWorkflow(c) ==
  BeginUpdateWorkflowWith(c, "idle", RequestedTemplateIds, StepsBodies, FormSchemaInputs)

\* db.$transaction of the update: the template row, then the steps when the body
\* has steps (deleteMany, createMany), then the form schema when the body has it
\* (null: deleteMany, else upsert); then the audit entry
UpdateWorkflowTransaction(c) ==
  /\ pc[c] = "tx"
  /\ req[c].kind = "wf_update"
  /\ LET r == req[c]
         t == r.templateId
     IN \/ /\ t \in DOMAIN workflowTemplate
           /\ r.steps.given => ~DeleteRefused(StepsReferenced(t))
           /\ workflowStep' =
                IF ~r.steps.given THEN workflowStep
                ELSE LET new == NewWorkflowSteps(t, r.steps.list)
                         kept == StepsOfOtherTemplates(t)
                     IN [i \in DOMAIN kept \cup DOMAIN new |->
                           IF i \in DOMAIN new THEN new[i] ELSE kept[i]]
           /\ formSchema' = CASE r.formSchema = "UNDEFINED" -> formSchema
                              [] r.formSchema = "NULL" -> formSchema \ {t}
                              [] r.formSchema = "FIELDS" -> formSchema \cup {t}
           /\ \E throws \in BOOLEAN :
                /\ auditLog' = [auditLog EXCEPT ![c] = createAuditLog(@,
                                 [processInstanceId |-> NULL, action |-> "WORKFLOW_UPDATED",
                                  changedById |-> r.userId],
                                 throws)]
                /\ failed' = [failed EXCEPT ![c] = IF throws THEN {"audit"} ELSE {}]
           /\ resp' = [resp EXCEPT ![c] = "200_ok"]
           /\ UNCHANGED <<workflowTemplate, processInstance, processStepInstance, notification>>
        \/ /\ resp' = [resp EXCEPT ![c] = "500_internal"]
           /\ failed' = [failed EXCEPT ![c] = {"tx"}]
           /\ UNCHANGED <<db, sideEffects>>
  /\ pc' = [pc EXCEPT ![c] = "done"]
  /\ UNCHANGED req

ActivationGuardNoFormCheck(status, steps, hasFormSchema) ==
  IF status = "ACTIVE" /\ Len(steps) = 0 THEN "400_no_steps"
  ELSE "OK"

\* Validate before activating: at least one step, and a form schema when a step is FORM
ActivationGuard(status, steps, hasFormSchema) ==
  IF status = "ACTIVE" /\ Len(steps) = 0 THEN "400_no_steps"
  ELSE IF status = "ACTIVE" /\ (\E k \in 1..Len(steps) : steps[k].stepType = "FORM")
          /\ ~hasFormSchema
       THEN "400_no_form_schema"
  ELSE "OK"

\* PATCH /api/workflows/[id]/status: the guards, the read of the template with its
\* steps and form schema, the validation on what was read
BeginSetStatus(c) ==
  /\ pc[c] = "idle"
  /\ \E session \in Sessions, bodyOk \in BOOLEAN, t \in RequestedTemplateIds,
        status \in WorkflowStatuses :
       LET guards == WorkflowGuards(session, bodyOk)
           found == t \in DOMAIN workflowTemplate
           outcome == IF guards # "OK" THEN guards
                      ELSE IF ~found THEN "404_workflow_not_found"
                      ELSE ActivationGuard(status, TemplateSteps(t), t \in formSchema)
       IN /\ guards # "OK" => t = "t0" /\ status = "DRAFT"
          /\ pc' = [pc EXCEPT ![c] = IF outcome = "OK" THEN "tx" ELSE "done"]
          /\ resp' = [resp EXCEPT ![c] = IF outcome = "OK" THEN "none" ELSE outcome]
          /\ req' = [req EXCEPT ![c] =
                       [NoRequest EXCEPT !.kind = "wf_status", !.userId = session,
                                         !.templateId = IF guards = "OK" THEN t ELSE "unread",
                                         !.action = IF guards = "OK" THEN status ELSE "unread",
                                         !.wfSteps = IF guards = "OK" /\ found
                                                     THEN TemplateSteps(t) ELSE <<>>,
                                         !.formSchema = IF guards = "OK" /\ found /\ t \in formSchema
                                                        THEN "FIELDS" ELSE "NULL"]]
  /\ UNCHANGED <<db, sideEffects, failed>>

\* db.workflowTemplate.update({ data: { status } }), then the audit entry
SetStatusUpdate(c) ==
  /\ pc[c] = "tx"
  /\ req[c].kind = "wf_status"
  /\ LET r == req[c]
         t == r.templateId
     IN \/ /\ t \in DOMAIN workflowTemplate
           /\ workflowTemplate' = [workflowTemplate EXCEPT ![t].status = r.action]
           /\ \E throws \in BOOLEAN :
                /\ auditLog' = [auditLog EXCEPT ![c] = createAuditLog(@,
                                 [processInstanceId |-> NULL, action |-> "WORKFLOW_STATUS_CHANGED",
                                  changedById |-> r.userId],
                                 throws)]
                /\ failed' = [failed EXCEPT ![c] = IF throws THEN {"audit"} ELSE {}]
           /\ resp' = [resp EXCEPT ![c] = "200_ok"]
           /\ UNCHANGED <<workflowStep, formSchema, processInstance, processStepInstance,
                          notification>>
        \/ /\ resp' = [resp EXCEPT ![c] = "500_internal"]
           /\ failed' = [failed EXCEPT ![c] = {"update"}]
           /\ UNCHANGED <<db, sideEffects>>
  /\ pc' = [pc EXCEPT ![c] = "done"]
  /\ UNCHANGED req

\* 404 when the template is not found, 400 when _count.processes > 0
DeleteGuard(found, processes) ==
  IF ~found THEN "404_workflow_not_found"
  ELSE IF processes > 0 THEN "400_has_processes"
  ELSE "OK"

\* DELETE /api/workflows/[id]: the guards and the read of the template with the
\* count of its processes
BeginDeleteWorkflow(c) ==
  /\ pc[c] = "idle"
  /\ \E session \in Sessions, t \in RequestedTemplateIds :
       LET guards == WorkflowGuards(session, TRUE)
           outcome == IF guards # "OK" THEN guards
                      ELSE DeleteGuard(t \in DOMAIN workflowTemplate,
                             Cardinality({p \in DOMAIN processInstance :
                                            processInstance[p].workflowTemplateId = t}))
       IN /\ guards # "OK" => t = "t0"
          /\ pc' = [pc EXCEPT ![c] = IF outcome = "OK" THEN "tx" ELSE "done"]
          /\ resp' = [resp EXCEPT ![c] = IF outcome = "OK" THEN "none" ELSE outcome]
          /\ req' = [req EXCEPT ![c] =
                       [NoRequest EXCEPT !.kind = "wf_delete", !.userId = session,
                                         !.templateId = IF guards = "OK" THEN t ELSE "unread"]]
  /\ UNCHANGED <<db, sideEffects, failed>>

\* db.workflowTemplate.delete: the template with the steps and the form schema it
\* owns; then the audit entry
DeleteWorkflowDelete(c) ==
  /\ pc[c] = "tx"
  /\ req[c].kind = "wf_delete"
  /\ LET r == req[c]
         t == r.templateId
     IN \/ /\ t \in DOMAIN workflowTemplate
           /\ ~DeleteRefused(TemplateReferenced(t) \/ StepsReferenced(t))
           /\ workflowTemplate' = [u \in DOMAIN workflowTemplate \ {t} |-> workflowTemplate[u]]
           /\ workflowStep' = StepsOfOtherTemplates(t)
           /\ formSchema' = formSchema \ {t}
           /\ \E throws \in BOOLEAN :
                /\ auditLog' = [auditLog EXCEPT ![c] = createAuditLog(@,
                                 [processInstanceId |-> NULL, action |-> "WORKFLOW_DELETED",
                                  changedById |-> r.userId],
                                 throws)]
                /\ failed' = [failed EXCEPT ![c] = IF throws THEN {"audit"} ELSE {}]
           /\ resp' = [resp EXCEPT ![c] = "200_ok"]
           /\ UNCHANGED <<processInstance, processStepInstance, notification>>
        \/ /\ resp' = [resp EXCEPT ![c] = "500_internal"]
           /\ failed' = [failed EXCEPT ![c] = {"delete"}]
           /\ UNCHANGED <<db, sideEffects>>
  /\ pc' = [pc EXCEPT ![c] = "done"]
  /\ UNCHANGED req

\* ------------------------------------------------------------------ workflow step editor: WorkflowStepsList, the workflow pages
\* stepOrder: z.number().int().min(1): the orders a request to the API may carry
ApiStepOrders == 1..MaxStepOrder

\* the step lists a request to the API may carry: any order values, none repeated
ApiStepInputs ==
  UNION {{[k \in 1..n |-> [stepOrder |-> o[k], stepType |-> ty[k]]] :
            ty \in [1..n -> StepTypes],
            o \in {f \in [1..n -> ApiStepOrders] : \A a, b \in 1..n : a # b => f[a] # f[b]}} :
           n \in 0..MaxTemplateSteps}

ApiStepsBodies == {NoSteps} \cup {[given |-> TRUE, list |-> l] : l \in ApiStepInputs}

\* requests sent to the API by any client of it
CreateWorkflowApi(c) == CreateWorkflowWith(c, "idle", ApiStepsBodies, {"UNDEFINED", "FIELDS"})

BeginUpdateWorkflowApi(c) ==
  BeginUpdateWorkflowWith(c, "idle", RequestedTemplateIds, ApiStepsBodies, FormSchemaInputs)

\* steps.map((s, index) => ({ ...s, stepOrder: index + 1 }))
Renumber(steps) == [k \in 1..Len(steps) |-> [steps[k] EXCEPT !.stepOrder = k]]

RECURSIVE Filter(_, _)
\* steps.filter((s) => s.stepOrder !== stepOrder)
Filter(steps, stepOrder) ==
  IF steps = <<>> THEN <<>>
  ELSE IF steps[1].stepOrder # stepOrder THEN <<steps[1]>> \o Filter(Tail(steps), stepOrder)
  ELSE Filter(Tail(steps), stepOrder)

\* handleAddStep, then handleSaveStep with isNew: the new step has stepOrder length + 1
handleAddStep(steps, stepType) ==
  Append(steps, [stepOrder |-> Len(steps) + 1, stepType |-> stepType])

\* handleEditStep, then handleSaveStep: the steps with that stepOrder are replaced
handleSaveStep(steps, stepOrder, stepType) ==
  [k \in 1..Len(steps) |->
     IF steps[k].stepOrder = stepOrder
     THEN [stepOrder |-> stepOrder, stepType |-> stepType]
     ELSE steps[k]]

\* handleDeleteStep: filter, then renumber
handleDeleteStep(steps, stepOrder) == Renumber(Filter(steps, stepOrder))

\* handleMoveStep: index from 0; no move past either end; swap, then renumber
handleMoveStep(steps, index, direction) ==
  IF (direction = "up" /\ index = 0) \/ (direction = "down" /\ index = Len(steps) - 1)
  THEN steps
  ELSE LET target == IF direction = "up" THEN index - 1 ELSE index + 1
           swapped == [k \in 1..Len(steps) |->
                         IF k = index + 1 THEN steps[target + 1]
                         ELSE IF k = target + 1 THEN steps[index + 1]
                         ELSE steps[k]]
       IN Renumber(swapped)

\* the steps of the new-workflow page when it opens
NewPageSteps ==
  <<[stepOrder |-> 1, stepType |-> "FORM"], [stepOrder |-> 2, stepType |-> "APPROVAL"]>>

\* the new-workflow page opens
OpenNewPage(c) ==
  /\ pc[c] = "idle"
  /\ pc' = [pc EXCEPT ![c] = "editing"]
  /\ req' = [req EXCEPT ![c] =
               [NoRequest EXCEPT !.kind = "editor", !.templateId = "new",
                                 !.steps = [given |-> TRUE, list |-> NewPageSteps],
                                 !.formSchema = "NULL"]]
  /\ UNCHANGED <<db, sideEffects, resp, failed>>

\* the edit page opens: fetchWorkflow sets the steps and form fields from
\* GET /api/workflows/[id], steps by stepOrder
OpenEditPage(c) ==
  /\ pc[c] = "idle"
  /\ \E t \in DOMAIN workflowTemplate :
       /\ Len(TemplateSteps(t)) <= MaxTemplateSteps
       /\ req' = [req EXCEPT ![c] =
                    [NoRequest EXCEPT
                       !.kind = "editor", !.templateId = t,
                       !.steps = [given |-> TRUE,
                                  list |-> [k \in 1..Len(TemplateSteps(t)) |->
                                              [stepOrder |-> TemplateSteps(t)[k].stepOrder,
                                               stepType |-> TemplateSteps(t)[k].stepType]]],
                       !.formSchema = IF t \in formSchema THEN "FIELDS" ELSE "NULL"]]
  /\ pc' = [pc EXCEPT ![c] = "editing"]
  /\ UNCHANGED <<db, sideEffects, resp, failed>>

\* one operation of the step editor or of the form builder on the page's state
EditPage(c) ==
  /\ pc[c] = "editing"
  /\ LET steps == req[c].steps.list IN
     \E new \in
          {handleAddStep(steps, ty) : ty \in {x \in StepTypes : Len(steps) < MaxTemplateSteps}}
            \cup {handleSaveStep(steps, steps[k].stepOrder, ty) : k \in 1..Len(steps), ty \in StepTypes}
            \cup {handleDeleteStep(steps, steps[k].stepOrder) : k \in 1..Len(steps)}
            \cup {handleMoveStep(steps, i, d) : i \in 0..(Len(steps) - 1), d \in {"up", "down"}} :
       /\ new # steps
       /\ req' = [req EXCEPT ![c].steps.list = new]
  /\ UNCHANGED <<db, sideEffects, pc, resp, failed>>

\* the form builder: the form has fields, or none
EditFormFields(c) ==
  /\ pc[c] = "editing"
  /\ req' = [req EXCEPT ![c].formSchema = IF @ = "FIELDS" THEN "NULL" ELSE "FIELDS"]
  /\ UNCHANGED <<db, sideEffects, pc, resp, failed>>

\* handleSave of the new-workflow page: refused without steps; POST with the steps
\* renumbered and formSchema only when the form has fields
SaveNewPage(c) ==
  /\ req[c].kind = "editor"
  /\ req[c].templateId = "new"
  /\ Len(req[c].steps.list) > 0
  /\ CreateWorkflowWith(c, "editing",
       {[given |-> TRUE, list |-> Renumber(req[c].steps.list)]},
       {IF req[c].formSchema = "FIELDS" THEN "FIELDS" ELSE "UNDEFINED"})

\* handleSave of the edit page: refused without steps; PUT with the steps
\* renumbered and formSchema null when the form has no fields
SaveEditPage(c) ==
  /\ req[c].kind = "editor"
  /\ req[c].templateId # "new"
  /\ Len(req[c].steps.list) > 0
  /\ BeginUpdateWorkflowWith(c, "editing", {req[c].templateId},
       {[given |-> TRUE, list |-> Renumber(req[c].steps.list)]},
       {req[c].formSchema})

\* the page is left without saving
LeavePage(c) ==
  /\ pc[c] = "editing"
  /\ pc' = [pc EXCEPT ![c] = "idle"]
  /\ req' = [req EXCEPT ![c] = NoRequest]
  /\ UNCHANGED <<db, sideEffects, resp, failed>>

\* ------------------------------------------------------------------ specification
\* one step of a client's request
Step(c) ==
  \/ BeginCreateProcess(c)
  \/ CreateProcessTransaction(c)
  \/ CreateProcessPostCommit(c)
  \/ BeginStepAction(c)
  \/ StepActionTransaction(c)
  \/ StepActionPostCommit(c)
  \/ Return(c)

\* the requests of one client, each run to its response before the next begins
Next == Step("c1")

Spec == Init /\ [][Next]_vars

SpecGaps == InitGaps /\ [][Next]_vars

\* the requests of two clients, interleaved at their awaits
NextConcurrent == \E c \in Clients : Step(c)

SpecConcurrent == InitConcurrent /\ [][NextConcurrent]_vars

\* the store after the seed: users only
InitTemplates ==
  /\ workflowTemplate = <<>>
  /\ workflowStep = <<>>
  /\ formSchema = {}
  /\ processInstance = <<>>
  /\ processStepInstance = <<>>
  /\ auditLog = [c \in Clients |-> <<>>]
  /\ notification = [c \in Clients |-> <<>>]
  /\ pc = [c \in Clients |-> "idle"]
  /\ req = [c \in Clients |-> NoRequest]
  /\ resp = [c \in Clients |-> "none"]
  /\ failed = [c \in Clients |-> {}]

\* one step of a client's request on the templates
TemplateStep(c) ==
  \/ CreateWorkflow(c)
  \/ BeginUpdateWorkflow(c)
  \/ UpdateWorkflowTransaction(c)
  \/ BeginSetStatus(c)
  \/ SetStatusUpdate(c)
  \/ BeginDeleteWorkflow(c)
  \/ DeleteWorkflowDelete(c)

\* template management and process execution by one client, from the empty store
NextTemplates == TemplateStep("c1") \/ Step("c1")

SpecTemplates == InitTemplates /\ [][NextTemplates]_vars

\* template management alone, by one client
NextTemplateAdmin == TemplateStep("c1") \/ Return("c1")

SpecTemplateAdmin == InitTemplates /\ [][NextTemplateAdmin]_vars

\* template deletions and process creations by two clients, interleaved at their awaits
NextDeleteRace ==
  \E c \in Clients :
    \/ BeginDeleteWorkflow(c)
    \/ DeleteWorkflowDelete(c)
    \/ BeginCreateProcess(c)
    \/ CreateProcessTransaction(c)
    \/ CreateProcessPostCommit(c)
    \/ Return(c)

SpecDeleteRace == InitConcurrent /\ [][NextDeleteRace]_vars

\* one step of the workflow pages of a client
EditorStep(c) ==
  \/ OpenNewPage(c)
  \/ OpenEditPage(c)
  \/ EditPage(c)
  \/ EditFormFields(c)
  \/ SaveNewPage(c)
  \/ SaveEditPage(c)
  \/ LeavePage(c)

\* the workflow pages of one client and requests sent to the API directly, from
\* the empty store
NextEditor ==
  \/ EditorStep("c1")
  \/ CreateWorkflowApi("c1")
  \/ BeginUpdateWorkflowApi("c1")
  \/ UpdateWorkflowTransaction("c1")
  \/ BeginDeleteWorkflow("c1")
  \/ DeleteWorkflowDelete("c1")
  \/ Return("c1")

SpecEditor == InitTemplates /\ [][NextEditor]_vars

\* PUT /api/workflows/[id] with at most as many steps as the templates of
\* InitConcurrent have
BeginUpdateWorkflowShort(c) ==
  BeginUpdateWorkflowWith(c, "idle", RequestedTemplateIds,
    {b \in StepsBodies : Len(b.list) <= MaxConcurrentSteps}, FormSchemaInputs)

\* one step of a request that changes the status of a template or edits it
TemplateChangeStep(c) ==
  \/ BeginSetStatus(c)
  \/ SetStatusUpdate(c)
  \/ BeginUpdateWorkflowShort(c)
  \/ UpdateWorkflowTransaction(c)
  \/ Return(c)

\* one step of a request that creates a process
ProcessCreationStep(c) ==
  \/ BeginCreateProcess(c)
  \/ CreateProcessTransaction(c)
  \/ CreateProcessPostCommit(c)
  \/ Return(c)

\* the status changes and edits of a template by one client and the process
\* creations of another, interleaved at their awaits
NextCreateRace == TemplateChangeStep("c1") \/ ProcessCreationStep("c2")

SpecCreateRace == InitConcurrent /\ [][NextCreateRace]_vars

\* the requests of one client when no approver rejects or requests changes
NextApproveOnly ==
  /\ Next
  /\ ~(pc'["c1"] = "tx" /\ req'["c1"].kind = "act" /\ req'["c1"].action # "approve")

\* an approver sends the approve of step instance i, and it passes the guards
BeginsApprove(i) ==
  /\ BeginStepAction("c1")
  /\ pc'["c1"] = "tx"
  /\ req'["c1"].stepId = i
  /\ req'["c1"].action = "approve"

\* the transaction of the approve of step instance i commits
CommitsApprove(i) ==
  /\ StepActionTransaction("c1")
  /\ pc'["c1"] = "post"
  /\ req["c1"].stepId = i

\* every request runs to its response, and fair approvers: a step instance that
\* can be approved again and again is eventually approved
FairApprovers ==
  /\ WF_vars(CreateProcessTransaction("c1"))
  /\ WF_vars(CreateProcessPostCommit("c1"))
  /\ WF_vars(StepActionTransaction("c1"))
  /\ WF_vars(StepActionPostCommit("c1"))
  /\ WF_vars(Return("c1"))
  /\ \A i \in StepInstIds : SF_vars(BeginsApprove(i)) /\ SF_vars(CommitsApprove(i))

SpecProgress == Init /\ [][NextApproveOnly]_vars /\ FairApprovers

TypeOK ==
  /\ \A p \in DOMAIN processInstance : processInstance[p].status \in ProcessStatuses
  /\ \A i \in DOMAIN processStepInstance : processStepInstance[i].status \in StepStatuses
  /\ \A c \in Clients : pc[c] \in {"idle", "editing", "tx", "post", "done"}

\* ------------------------------------------------------------------ vocabulary of the properties
StepTypeOf(i) == workflowStep[processStepInstance[i].workflowStepId].stepType
StepOrderOf(i) == workflowStep[processStepInstance[i].workflowStepId].stepOrder
TemplateOf(i) == processInstance[processStepInstance[i].processInstanceId].workflowTemplateId
StepsOfProcess(p) == {i \in DOMAIN processStepInstance : processStepInstance[i].processInstanceId = p}

\* the step instances of the same process whose workflow step has the given order
StepsAtOrder(i, order) ==
  {j \in StepsOfProcess(processStepInstance[i].processInstanceId) : StepOrderOf(j) = order}

\* the template of step instance i has a step with the given order / a larger one
TemplateHasOrder(i, order) ==
  \E k \in DOMAIN workflowStep :
    workflowStep[k].workflowTemplateId = TemplateOf(i) /\ workflowStep[k].stepOrder = order
TemplateHasOrderAbove(i, order) ==
  \E k \in DOMAIN workflowStep :
    workflowStep[k].workflowTemplateId = TemplateOf(i) /\ workflowStep[k].stepOrder > order

\* this step is the commit of client c's step action transaction
Commits(c) == pc[c] = "tx" /\ pc'[c] = "post" /\ req[c].kind = "act"
CommitsAction(c, action) == Commits(c) /\ req[c].action = action

\* every step instance other than those of S is as it was
OnlyChanges(S) ==
  /\ DOMAIN processStepInstance' = DOMAIN processStepInstance
  /\ \A j \in DOMAIN processStepInstance \ S : processStepInstance'[j] = processStepInstance[j]

Elevated(u) == u # NoSession /\ userRole(u) \in {"ADMIN", "APPROVER"}

\* this step is the start of a step action / of a process creation by client c:
\* the handler runs up to its first return or to its transaction
BeginsAct(c) == pc[c] = "idle" /\ pc'[c] # "idle" /\ req'[c].kind = "act"

BeginsCreate(c) == pc[c] = "idle" /\ pc'[c] # "idle" /\ req'[c].kind = "create"

\* this step is the commit of client c's process creation transaction
CommitsCreate(c) == pc[c] = "tx" /\ pc'[c] = "post" /\ req[c].kind = "create"

ActFailures ==
  {"401_unauthorized", "403_forbidden", "400_invalid_request", "404_step_not_found",
   "400_step_mismatch", "400_not_pending", "400_not_approval"}

\* ------------------------------------------------------------------ C1
\* C1 (as claimed): the PENDING check and the write of a step action are atomic
\* together: whenever a step action commits its write, the step instance it
\* writes is PENDING at that moment, so of two concurrent requests against the same
\* step only one performs the PENDING -> COMPLETED/REJECTED write.
C1_CheckAndWriteAtomic ==
  [][\A c \in Clients :
       Commits(c) => processStepInstance[req[c].stepId].status = "PENDING"]_vars

\* ------------------------------------------------------------------ C2
\* C2 (as claimed): COMPLETED and REJECTED are terminal: once the status of a process
\* is COMPLETED or REJECTED, neither its status nor any of its step instances
\* changes again (every later step action is refused).
C2_TerminalStatuses ==
  [][\A p \in DOMAIN processInstance :
       processInstance[p].status \in {"COMPLETED", "REJECTED"}
         => /\ processInstance'[p] = processInstance[p]
            /\ \A i \in StepsOfProcess(p) : processStepInstance'[i] = processStepInstance[i]]_vars

\* ------------------------------------------------------------------ C3
\* the first violated precondition in the order the claim gives:
\* exists, process matches, PENDING, APPROVAL, role
ClaimedFirstViolated(session, processId, stepId) ==
  IF stepId \notin DOMAIN processStepInstance THEN "404_step_not_found"
  ELSE IF processStepInstance[stepId].processInstanceId # processId THEN "400_step_mismatch"
  ELSE IF processStepInstance[stepId].status # "PENDING" THEN "400_not_pending"
  ELSE IF StepTypeOf(stepId) # "APPROVAL" THEN "400_not_approval"
  ELSE IF ~Elevated(session) THEN "403_forbidden"
  ELSE "OK"

C4_SideEffectFailuresNeverSurface ==
  \A c \in Clients :
    (pc[c] = "done" /\ failed[c] # {} /\ failed[c] \subseteq {"audit", "lookup", "creator", "pool"})
      => resp[c] \in {"200_ok", "201_created"}

\* ------------------------------------------------------------------ C5
\* C5: a step action that is answered with a precondition failure (401, 403, malformed
\* body, step not found, step/process mismatch, step not PENDING, step not APPROVAL)
\* ends there: the step that answers it changes no table row and the request has
\* inserted no audit entry and no notification.
C5_RefusedActionWritesNothing ==
  [][\A c \in Clients :
       (req'[c].kind = "act" /\ resp'[c] \in ActFailures /\ pc'[c] # pc[c])
         => /\ pc'[c] = "done"
            /\ UNCHANGED db
            /\ auditLog'[c] = <<>> /\ notification'[c] = <<>>]_vars

\* an authorized, well-formed action on a step that is no longer PENDING was refused
C5_Witness ==
  \E c \in Clients :
    /\ pc[c] = "done" /\ req[c].kind = "act" /\ resp[c] = "400_not_pending"
    /\ processStepInstance[req[c].stepId].status \in {"COMPLETED", "REJECTED"}

\* ------------------------------------------------------------------ C6
\* C6: the commit of a reject sets the target step instance to REJECTED and the
\* process to REJECTED, and leaves every other step instance as it was.
C6_RejectEffect ==
  [][\A c \in Clients :
       CommitsAction(c, "reject")
         => /\ processStepInstance'[req[c].stepId].status = "REJECTED"
            /\ processInstance'[req[c].processId].status = "REJECTED"
            /\ OnlyChanges({req[c].stepId})]_vars

\* a reject has committed while another APPROVAL step of the process is PENDING
C6_Witness ==
  \E c \in Clients :
    /\ pc[c] = "post" /\ req[c].kind = "act" /\ req[c].action = "reject"
    /\ processStepInstance[req[c].stepId].status = "REJECTED"
    /\ processInstance[req[c].processId].status = "REJECTED"
    /\ \E j \in StepsOfProcess(req[c].processId) \ {req[c].stepId} :
         processStepInstance[j].status = "PENDING" /\ StepTypeOf(j) = "APPROVAL"

\* ------------------------------------------------------------------ C7
\* C7: the commit of a request_changes sets the target step instance to REJECTED with
\* the actor, acted-at and the comments of the request, sets the process to
\* CHANGES_REQUESTED, and leaves every other step instance as it was.
C7_RequestChangesEffect ==
  [][\A c \in Clients :
       CommitsAction(c, "request_changes")
         => /\ processStepInstance'[req[c].stepId].status = "REJECTED"
            /\ processStepInstance'[req[c].stepId].actedById = req[c].userId
            /\ processStepInstance'[req[c].stepId].actedAt = NOW
            /\ processStepInstance'[req[c].stepId].comments = req[c].comments
            /\ processInstance'[req[c].processId].status = "CHANGES_REQUESTED"
            /\ OnlyChanges({req[c].stepId})]_vars

\* a request_changes has committed
C7_Witness ==
  \E c \in Clients :
    /\ pc[c] = "post" /\ req[c].kind = "act" /\ req[c].action = "request_changes"
    /\ processStepInstance[req[c].stepId].status = "REJECTED"
    /\ processStepInstance[req[c].stepId].actedById = req[c].userId
    /\ processInstance[req[c].processId].status = "CHANGES_REQUESTED"

\* ------------------------------------------------------------------ C8
\* C8: the commit of an approve of a step whose template has no step with
\* stepOrder + 1 sets the step instance to COMPLETED and the process to COMPLETED.
C8_ApproveWithoutNextCompletes ==
  [][\A c \in Clients :
       (CommitsAction(c, "approve")
          /\ ~TemplateHasOrder(req[c].stepId, StepOrderOf(req[c].stepId) + 1))
         => /\ processStepInstance'[req[c].stepId].status = "COMPLETED"
            /\ processInstance'[req[c].processId].status = "COMPLETED"]_vars

\* the only step of a one-APPROVAL-step template has been approved
C8_Witness ==
  \E c \in Clients :
    /\ pc[c] = "post" /\ req[c].kind = "act" /\ req[c].action = "approve"
    /\ StepsOfProcess(req[c].processId) = {req[c].stepId}
    /\ processStepInstance[req[c].stepId].status = "COMPLETED"
    /\ processInstance[req[c].processId].status = "COMPLETED"

\* ------------------------------------------------------------------ C9
\* C9 (as claimed): the commit of an approve of a step whose next step (stepOrder + 1)
\* exists and is FORM or APPROVAL leaves the process IN_PROGRESS, leaves the next
\* step instance as it was, still PENDING with no actor and no acted-at, and
\* changes only the approved step instance.
C9_ApproveLeavesNextPending ==
  [][\A c \in Clients :
       CommitsAction(c, "approve") =>
         \A j \in StepsAtOrder(req[c].stepId, StepOrderOf(req[c].stepId) + 1) :
           StepTypeOf(j) \in {"FORM", "APPROVAL"}
             => /\ processInstance'[req[c].processId].status = "IN_PROGRESS"
                /\ OnlyChanges({req[c].stepId})
                /\ processStepInstance'[j].status = "PENDING"
                /\ processStepInstance'[j].actedById = NULL
                /\ processStepInstance'[j].actedAt = NULL]_vars

\* ------------------------------------------------------------------ C10
\* C10: the commit of an approve of a step whose next step (stepOrder + 1) is a
\* NOTIFICATION step with no step after it completes that NOTIFICATION step instance
\* (COMPLETED, acted-at set, no actor) and sets the process to COMPLETED, in the
\* same transaction.
C10_NotificationAutoCompletes ==
  [][\A c \in Clients :
       CommitsAction(c, "approve") =>
         \A j \in StepsAtOrder(req[c].stepId, StepOrderOf(req[c].stepId) + 1) :
           (StepTypeOf(j) = "NOTIFICATION" /\ ~TemplateHasOrderAbove(j, StepOrderOf(j)))
             => /\ processStepInstance'[j].status = "COMPLETED"
                /\ processStepInstance'[j].actedAt = NOW
                /\ processStepInstance'[j].actedById = NULL
                /\ processStepInstance'[req[c].stepId].status = "COMPLETED"
                /\ processInstance'[req[c].processId].status = "COMPLETED"]_vars

\* FORM, APPROVAL, NOTIFICATION: the approval has committed
C10_Witness ==
  \E c \in Clients :
    /\ pc[c] = "post" /\ req[c].kind = "act" /\ req[c].action = "approve"
    /\ Len(req[c].wfSteps) = 3
    /\ req[c].wfSteps[1].stepType = "FORM"
    /\ req[c].wfSteps[3].stepType = "NOTIFICATION"
    /\ req[c].currentStepOrder = 2
    /\ processStepInstance[<<req[c].processId, 3>>].status = "COMPLETED"
    /\ processStepInstance[<<req[c].processId, 3>>].actedById = NULL
    /\ processInstance[req[c].processId].status = "COMPLETED"

\* ------------------------------------------------------------------ C11
\* C11 (as claimed): the commit of an approve of a step whose next step (stepOrder + 1)
\* is a NOTIFICATION step with a step after it completes exactly that NOTIFICATION
\* step instance, changes no step instance besides it and the approved one, and
\* leaves the process IN_PROGRESS.
C11_SingleNotificationCascade ==
  [][\A c \in Clients :
       CommitsAction(c, "approve") =>
         \A j \in StepsAtOrder(req[c].stepId, StepOrderOf(req[c].stepId) + 1) :
           (StepTypeOf(j) = "NOTIFICATION" /\ TemplateHasOrder(j, StepOrderOf(j) + 1))
             => /\ processStepInstance'[j].status = "COMPLETED"
                /\ OnlyChanges({req[c].stepId, j})
                /\ processInstance'[req[c].processId].status = "IN_PROGRESS"]_vars

C14_CreationAutoCompletion ==
  [][\A c \in Clients :
       CommitsCreate(c) =>
         /\ processInstance'[req'[c].processId].status = "IN_PROGRESS"
         /\ \A i \in DOMAIN processStepInstance' \ DOMAIN processStepInstance :
              LET si == processStepInstance'[i]
                  ws == workflowStep[si.workflowStepId]
              IN IF ws.stepOrder = 1 /\ ws.stepType = "FORM"
                 THEN si.status = "COMPLETED" /\ si.actedById = req[c].userId /\ si.actedAt = NOW
                 ELSE si.status = "PENDING" /\ si.actedById = NULL /\ si.actedAt = NULL]_vars

\* ------------------------------------------------------------------ C15
\* C15: a process creation by an authenticated caller with a well-formed body is
\* answered 404 when the template does not exist and 400 when the template is not
\* ACTIVE or has no steps; the request ends there, with no table row changed and no
\* audit entry or notification inserted.
C15_CreationPreconditions ==
  [][\A c \in Clients :
       (BeginsCreate(c) /\ req'[c].userId # NoSession /\ req'[c].action = "create")
         => LET t == req'[c].templateId
                missing == t \notin DOMAIN workflowTemplate
                inactive == ~missing /\ workflowTemplate[t].status # "ACTIVE"
                empty == ~missing /\ Len(TemplateSteps(t)) = 0
            IN /\ missing => resp'[c] = "404_workflow_not_found"
               /\ (inactive \/ empty) => resp'[c] \in {"400_not_active", "400_no_steps"}
               /\ inactive => resp'[c] = "400_not_active"
               /\ (missing \/ inactive \/ empty)
                    => /\ pc'[c] = "done"
                       /\ UNCHANGED db
                       /\ auditLog'[c] = <<>> /\ notification'[c] = <<>>]_vars

\* a creation from a template that has steps and is not ACTIVE was refused
C15_Witness ==
  \E c \in Clients :
    /\ pc[c] = "done" /\ req[c].kind = "create" /\ resp[c] = "400_not_active"
    /\ Len(TemplateSteps(req[c].templateId)) > 0
    /\ processInstance = <<>>

C18_ActivationGuard ==
  [][\A c \in Clients :
       /\ (/\ pc[c] = "idle" /\ pc'[c] # "idle"
           /\ req'[c].kind = "wf_status"
           /\ req'[c].templateId \in DOMAIN workflowTemplate)
          => LET t == req'[c].templateId
                 steps == {k \in DOMAIN workflowStep : workflowStep[k].workflowTemplateId = t}
                 incomplete == \/ steps = {}
                               \/ /\ \E k \in steps : workflowStep[k].stepType = "FORM"
                                  /\ t \notin formSchema
             IN /\ (req'[c].action = "ACTIVE" /\ incomplete)
                     => /\ resp'[c] \in {"400_no_steps", "400_no_form_schema"}
                        /\ pc'[c] = "done"
                        /\ UNCHANGED db
                /\ req'[c].action \in {"DRAFT", "ARCHIVED"} => pc'[c] = "tx"
       /\ (pc[c] = "tx" /\ req[c].kind = "wf_status" /\ resp'[c] = "200_ok")
          => workflowTemplate'[req[c].templateId].status = req[c].action
    ]_vars

\* the activation of a DRAFT template with a FORM step and no form schema has been refused
C18_Witness ==
  /\ pc["c1"] = "done"
  /\ req["c1"].kind = "wf_status"
  /\ req["c1"].action = "ACTIVE"
  /\ resp["c1"] = "400_no_form_schema"
  /\ workflowTemplate[req["c1"].templateId].status = "DRAFT"
  /\ req["c1"].templateId \notin formSchema

\* ------------------------------------------------------------------ C19
\* C19: in every reachable state, whatever template creations, edits and status
\* changes came before, every ACTIVE template has at least one step and, when one
\* of its steps is a FORM step, has a form schema.
C19_ActiveTemplatesComplete ==
  \A t \in DOMAIN workflowTemplate :
    workflowTemplate[t].status = "ACTIVE"
      => /\ Len(TemplateSteps(t)) >= 1
         /\ (\E k \in 1..Len(TemplateSteps(t)) : TemplateSteps(t)[k].stepType = "FORM")
              => t \in formSchema

C21_StepOrdersContiguous ==
  \A t \in DOMAIN workflowTemplate :
    LET steps == {k \in DOMAIN workflowStep : workflowStep[k].workflowTemplateId = t}
    IN /\ {workflowStep[k].stepOrder : k \in steps} = 1..Cardinality(steps)

\* ------------------------------------------------------------------ C22
\* the audit entry of the step action in r
ExpectedAuditEntry(r) ==
  [processInstanceId |-> r.processId,
   action |-> CASE r.action = "approve" -> "STEP_COMPLETED"
                [] r.action = "reject" -> "STEP_REJECTED"
                [] r.action = "request_changes" -> "CHANGES_REQUESTED",
   changedById |-> r.userId]

\* C22 (as claimed): every step action that commits emits exactly one audit
\* entry, after the commit, tagged by the action (approve STEP_COMPLETED, reject
\* STEP_REJECTED, request_changes CHANGES_REQUESTED) with the acting user as
\* actor; a step action that fails a precondition, or whose transaction fails,
\* emits none.
C22_ClaimedOneAuditEntry ==
  [][\A c \in Clients :
       /\ (BeginsAct(c) /\ pc'[c] = "done") => auditLog'[c] = <<>>
       /\ (pc[c] = "tx" /\ req[c].kind = "act") => auditLog'[c] = <<>>
       /\ (pc[c] = "post" /\ pc'[c] = "done" /\ req[c].kind = "act")
            => auditLog'[c] = <<ExpectedAuditEntry(req[c])>>
    ]_vars

\* C22: every step action that commits attempts one audit entry, after the
\* commit: unless that insert fails (the failure is caught, the action still
\* succeeds and no entry exists), there is exactly one entry, tagged by the
\* action with the acting user as actor; a step action that fails a
\* precondition, or whose transaction fails, emits none.
C22_OneAuditEntryUnlessInsertFails ==
  [][\A c \in Clients :
       /\ (BeginsAct(c) /\ pc'[c] = "done") => auditLog'[c] = <<>>
       /\ (pc[c] = "tx" /\ req[c].kind = "act") => auditLog'[c] = <<>>
       /\ (pc[c] = "post" /\ pc'[c] = "done" /\ req[c].kind = "act")
            => auditLog'[c] = IF "audit" \in failed'[c] THEN <<>>
                              ELSE <<ExpectedAuditEntry(req[c])>>
    ]_vars

\* a reject has been answered 200 and its one audit entry is there
C22_Witness ==
  /\ pc["c1"] = "done"
  /\ req["c1"].kind = "act"
  /\ req["c1"].action = "reject"
  /\ resp["c1"] = "200_ok"
  /\ Len(auditLog["c1"]) = 1
  /\ auditLog["c1"][1].action = "STEP_REJECTED"
  /\ auditLog["c1"][1].changedById = req["c1"].userId

\* ------------------------------------------------------------------ C23
\* the order of the step that an approve of step instance i reaches: the next
\* order, or the one after it when the next step is a NOTIFICATION step (which
\* the approve auto-completes)
ReachedOrder(i) ==
  LET n == StepOrderOf(i) + 1
  IN IF \E j \in StepsAtOrder(i, n) : StepTypeOf(j) = "NOTIFICATION" THEN n + 1 ELSE n

\* the approver pool has been notified by the request of client c
PoolNotified(table) ==
  \A u \in ApproverPool :
    \E k \in 1..Len(table) : table[k].userId = u /\ table[k].type = "ACTION_REQUIRED"

\* C23 (as claimed): after a step action that commits (and whose calls after the
\* commit all succeed), the approver pool is notified if and only if the action
\* was approve and the step newly reached by it is an APPROVAL step, also when
\* that step is reached across an auto-completed NOTIFICATION step; reject and
\* request_changes never notify the pool.
C23_PoolNotifiedIffApprovalReached ==
  [][\A c \in Clients :
       (pc[c] = "post" /\ pc'[c] = "done" /\ req[c].kind = "act" /\ failed'[c] = {})
         => (PoolNotified(notification'[c])
               <=> /\ req[c].action = "approve"
                   /\ \E j \in StepsAtOrder(req[c].stepId, ReachedOrder(req[c].stepId)) :
                        StepTypeOf(j) = "APPROVAL")
    ]_vars

\* ------------------------------------------------------------------ C24
\* C24: in every reachable state in which every step instance of a process is
\* COMPLETED, the process is COMPLETED, for every template shape and every order
\* in which its APPROVAL steps are approved.
C24_AllStepsDoneCompletes ==
  \A p \in DOMAIN processInstance :
    (/\ StepsOfProcess(p) # {}
     /\ \A i \in StepsOfProcess(p) : processStepInstance[i].status = "COMPLETED")
      => processInstance[p].status = "COMPLETED"

\* ------------------------------------------------------------------ C25
\* C25: in no reachable state is a NOTIFICATION step instance PENDING while every
\* step instance of the same process with a smaller stepOrder is COMPLETED (a
\* NOTIFICATION step that is first, that follows the auto-completed FORM step, or
\* that follows another NOTIFICATION step included).
C25_NotificationCompletesWhenReached ==
  \A i \in DOMAIN processStepInstance :
    ~ /\ StepTypeOf(i) = "NOTIFICATION"
      /\ processStepInstance[i].status = "PENDING"
      /\ \A j \in StepsOfProcess(processStepInstance[i].processInstanceId) :
           StepOrderOf(j) < StepOrderOf(i) => processStepInstance[j].status = "COMPLETED"

\* ------------------------------------------------------------------ C26
\* C26: steps are acted on in template order: a step action commits on a step
\* instance only if every step instance of the same process with a smaller
\* stepOrder is COMPLETED, so that in every reachable state a step instance that
\* is not PENDING is never preceded by a PENDING one.
C26_ActedInTemplateOrder ==
  [][\A c \in Clients :
       /\ Commits(c)
            => \A j \in StepsOfProcess(processStepInstance[req[c].stepId].processInstanceId) :
                 StepOrderOf(j) < StepOrderOf(req[c].stepId)
                   => processStepInstance[j].status = "COMPLETED"
       /\ \A i, j \in DOMAIN processStepInstance' :
            (/\ processStepInstance'[i].processInstanceId = processStepInstance'[j].processInstanceId
             /\ StepOrderOf(i)' < StepOrderOf(j)'
             /\ processStepInstance'[j].status # "PENDING")
              => processStepInstance'[i].status # "PENDING"
    ]_vars

\* ------------------------------------------------------------------ C27
\* C27: under every interleaving of process creations and step actions, once the
\* status of a step instance is COMPLETED or REJECTED it never changes to a
\* different status, and its recorded actor is never replaced by another actor.
C27_StepStatusMonotone ==
  [][\A i \in DOMAIN processStepInstance :
       processStepInstance[i].status \in {"COMPLETED", "REJECTED"}
         => /\ i \in DOMAIN processStepInstance'
            /\ processStepInstance'[i].status = processStepInstance[i].status
            /\ processStepInstance'[i].actedById = processStepInstance[i].actedById
    ]_vars

\* ------------------------------------------------------------------ C28
\* C28: in every reachable state, every step instance of a COMPLETED process is
\* COMPLETED (none is PENDING or REJECTED), for every template shape, templates
\* with gaps in their stepOrder values included, and every order of step actions.
C28_CompletedProcessHasAllStepsDone ==
  \A p \in DOMAIN processInstance :
    processInstance[p].status = "COMPLETED"
      => \A i \in StepsOfProcess(p) : processStepInstance[i].status = "COMPLETED"

\* ------------------------------------------------------------------ C29
\* C29: with fair approvers and no reject or request_changes, every process that
\* is created eventually is COMPLETED: no template shape leaves a process
\* IN_PROGRESS with no step instance on which an action can succeed.
C29_Progress ==
  \A p \in ProcIds :
    (p \in DOMAIN processInstance)
      ~> (p \in DOMAIN processInstance /\ processInstance[p].status = "COMPLETED")

\* ------------------------------------------------------------------ C30
\* C30: under any interleaving with status changes and edits of the template, a
\* process creation commits only against a template that is ACTIVE at the commit
\* and whose steps are the ones the request read: every step instance it creates
\* is for a workflow step that belongs to the template, one per step.
C30_CreationAgainstCurrentTemplate ==
  [][\A c \in Clients :
       CommitsCreate(c)
         => LET t == req[c].templateId
                new == DOMAIN processStepInstance' \ DOMAIN processStepInstance
                steps == {k \in DOMAIN workflowStep : workflowStep[k].workflowTemplateId = t}
            IN /\ t \in DOMAIN workflowTemplate
               /\ workflowTemplate[t].status = "ACTIVE"
               /\ {processStepInstance'[i].workflowStepId : i \in new} = steps
               /\ Cardinality(new) = Cardinality(steps)
    ]_vars

====
